---- MODULE Spec2Model ----
(***************************************************************************)
(* corallium.pretty_process: a list of data is chunked, one job per chunk  *)
(* is submitted to a process pool, the workers report per-item progress    *)
(* through a manager dict and the calling thread polls that dict to update *)
(* rich progress bars until every job is done, then collects the results.  *)
(***************************************************************************)
EXTENDS Integers, Sequences, FiniteSets, TLC

\* ---- bounds of the model ------------------------------------------------
\* longest data list given to pretty_process
MaxLen == 3
\* longest list given to _chunked directly
MaxChunkLen == 7
\* largest worker count (num_workers argument, num_cpus global)
MaxCount == 3
\* most negative worker count is -MaxNeg
MaxNeg == 1
\* item values of the lists given to _chunked directly
MaxItem == 2

VARIABLES
    data,             \* pretty_process / _chunked argument: the list of items
    num_workers,      \* pretty_process argument
    num_cpus,         \* module global read at line 78: <<>> when unbound, <<c>> when bound to c
    failItems,        \* the items on which the delegated task raises
    pc,               \* position of the calling thread
    chunked,          \* outcome of the call _chunked(data, count=num_cpus)
    ix,               \* enumerate() index of the dispatch loop, then index of the done()/result() scans
    task_id,          \* loop variable task_id of the dispatch loop
    progress,         \* rich Progress: task id -> [completed, total]
    shared_progress,  \* manager.dict(): task id -> items completed
    totals,           \* totals dict: task id -> chunk length
    jobs,             \* list of futures, in submission order
    workers,          \* per job, the position of the delegated task running it
    remaining,        \* local of the polling loop
    n_seen_done,      \* partial sum of job.done() at line 94
    results,          \* the list being built at line 97
    outcome,          \* what the call returned or raised
    resources         \* which of the three context managers are open

vars == <<data, num_workers, num_cpus, failItems, pc, chunked, ix, task_id, progress,
          shared_progress, totals, jobs, workers, remaining, n_seen_done, results,
          outcome, resources>>

\* ---- Python arithmetic and sequences --------------------------------------
\* a // b for b # 0 (floor division, also for negative operands)
PyFloorDiv(a, b) ==
    IF b > 0 THEN a \div b ELSE (-a) \div (-b)

\* a % b for b # 0 (the result has the sign of b)
PyMod(a, b) ==
    a - b * PyFloorDiv(a, b)

\* int(math.ceil(a / b)) for b # 0
PyCeilDiv(a, b) ==
    -PyFloorDiv(-a, b)

\* len(range(0, stop, step)) for step # 0
PyRangeLen(stop, step) ==
    IF step > 0
    THEN (IF stop > 0 THEN PyCeilDiv(stop, step) ELSE 0)
    ELSE (IF stop < 0 THEN PyCeilDiv(stop, step) ELSE 0)

\* d[lo:hi] for 0 <= lo
PySlice(d, lo, hi) ==
    LET top == IF hi < Len(d) THEN hi ELSE Len(d)
    IN  IF top <= lo THEN <<>> ELSE [k \in 1..(top - lo) |-> d[lo + k]]

\* outcome of a call: a returned value or a raised exception
Return(v) ==
    [exc |-> "None", value |-> v]

Raise(e) ==
    [exc |-> e, value |-> <<>>]

NotCalled ==
    [exc |-> "NotCalled", value |-> <<>>]

\* ---- _chunked -------------------------------------------------------------
\* _chunked without line 43: the chunk size is not rounded up for the remainder
ChunkedFloor(d, count) ==
    LET size == Len(d)
    IN  IF count = 0 \/ size = 0 THEN Raise("ZeroDivisionError")
        ELSE LET chunk_size == PyFloorDiv(size, count)
             IN  IF chunk_size = 0 THEN Raise("ValueError")
                 ELSE Return([k \in 1..PyRangeLen(size, chunk_size) |->
                                PySlice(d, (k - 1) * chunk_size, k * chunk_size)])

_chunked(d, count) ==
    LET size == Len(d)
    IN  IF count = 0 THEN Raise("ZeroDivisionError")               \* size // count
        ELSE LET chunk_size0 == PyFloorDiv(size, count)
                 chunk_rem == PyMod(size, count)
             IN  IF size = 0 THEN Raise("ZeroDivisionError")       \* chunk_rem / size
                 ELSE LET chunk_size == chunk_size0 + PyCeilDiv(chunk_rem, size)
                      IN  IF chunk_size = 0 THEN Raise("ValueError")   \* range() step
                          ELSE Return([k \in 1..PyRangeLen(size, chunk_size) |->
                                         PySlice(d, (k - 1) * chunk_size,
                                                    (k - 1) * chunk_size + chunk_size)])

\* ---- helpers on lists -----------------------------------------------------
RECURSIVE Concat(_)
Concat(ss) ==
    IF ss = <<>> THEN <<>> ELSE Head(ss) \o Concat(Tail(ss))

RECURSIVE SumLen(_)
SumLen(ss) ==
    IF ss = <<>> THEN 0 ELSE Len(Head(ss)) + SumLen(Tail(ss))

Range1(n) ==
    [k \in 1..n |-> k]

\* all lists over 1..MaxItem of length at most MaxChunkLen
Lists ==
    UNION {[1..n -> 1..MaxItem] : n \in 0..MaxChunkLen}

Counts ==
    (-MaxNeg)..MaxCount

\* ---- _chunked called on its own -------------------------------------------
\* the demo of the __main__ block: data=[*range(23)], num_cpus = 4 when psutil is missing
DemoLen == 23

DemoCpus == 4

DemoData ==
    [k \in 1..DemoLen |-> k - 1]

InitChunk ==
    /\ \/ /\ data \in Lists
          /\ num_cpus \in {<<c>> : c \in Counts}
       \/ /\ data = DemoData
          /\ num_cpus = <<DemoCpus>>
    /\ num_workers = num_cpus[1]
    /\ failItems = {}
    /\ pc = "call_chunked"
    /\ chunked = NotCalled
    /\ ix = 0
    /\ task_id = 0
    /\ progress = <<>>
    /\ shared_progress = <<>>
    /\ totals = <<>>
    /\ jobs = <<>>
    /\ workers = <<>>
    /\ remaining = 0
    /\ n_seen_done = 0
    /\ results = <<>>
    /\ outcome = NotCalled
    /\ resources = {}

CallChunked ==
    /\ pc = "call_chunked"
    /\ chunked' = _chunked(data, num_cpus[1])
    /\ pc' = "chunked_returned"
    /\ UNCHANGED <<data, num_workers, num_cpus, failItems, ix, task_id, progress,
                   shared_progress, totals, jobs, workers, remaining, n_seen_done,
                   results, outcome, resources>>

\* ---- pretty_process: the calling thread -----------------------------------
\* the task ids of rich's Progress count up from 0; the first bar is the aggregate one
task_id_all == 0

\* a bar as progress.add_task(description) creates it (rich's default total is 100)
NewBar ==
    [completed |-> 0, total |-> 100]


\* done() confused with "has been started": a running job counts as done
JobStarted(job) ==
    job.state # "PENDING"

\* done() that is true only for a job that returned a result
JobReturned(job) ==
    job.state = "FINISHED" /\ job.outcome.exc = "None"

\* Future.done()
JobDone(job) ==
    job.state = "FINISHED"

\* the value the delegated task returns for its keyword arguments
DelegatedResult(tid, chunk) ==
    <<tid, chunk>>

\* 1-based position of the first item of chunk on which the task raises, 0 if none
FailPos(chunk) ==
    IF \E k \in 1..Len(chunk) : chunk[k] \in failItems
    THEN CHOOSE k \in 1..Len(chunk) :
            /\ chunk[k] \in failItems
            /\ \A m \in 1..(k - 1) : chunk[m] \notin failItems
    ELSE 0

RECURSIVE SumValues(_)
SumValues(d) ==
    IF DOMAIN d = {} THEN 0
    ELSE LET k == CHOOSE x \in DOMAIN d : TRUE
         IN  d[k] + SumValues([x \in DOMAIN d \ {k} |-> d[x]])

Init ==
    /\ \E n \in 0..MaxLen :
          /\ data = Range1(n)
          /\ failItems \in SUBSET (1..n)
    /\ num_workers \in Counts
    /\ num_cpus \in {<<>>} \cup {<<c>> : c \in Counts}
    /\ pc = "start"
    /\ chunked = NotCalled
    /\ ix = 0
    /\ task_id = 0
    /\ progress = <<>>
    /\ shared_progress = <<>>
    /\ totals = <<>>
    /\ jobs = <<>>
    /\ workers = <<>>
    /\ remaining = 0
    /\ n_seen_done = 0
    /\ results = <<>>
    /\ outcome = NotCalled
    /\ resources = {}


\* leaving without the with-blocks: the exception or value goes straight to the caller
UnwindNoCleanup(o) ==
    /\ outcome' = o
    /\ pc' = IF o.exc = "None" THEN "returned" ELSE "raised"

\* an exception or a return value leaves through the open with-blocks, innermost first
Unwind(o) ==
    /\ outcome' = o
    /\ pc' = IF "executor" \in resources THEN "exit_executor" ELSE "exit_manager"

\* lines 69-75: open the display and the manager, create the dicts and the aggregate bar
Enter ==
    /\ pc = "start"
    /\ resources' = {"progress", "manager"}
    /\ shared_progress' = <<>>
    /\ jobs' = <<>>
    /\ totals' = <<>>
    /\ progress' = (task_id_all :> NewBar)
    /\ pc' = "executor"
    /\ UNCHANGED <<data, num_workers, num_cpus, failItems, chunked, ix, task_id, workers,
                   remaining, n_seen_done, results, outcome>>

\* line 77: ProcessPoolExecutor(max_workers=num_workers) raises ValueError for max_workers <= 0
OpenExecutor ==
    /\ pc = "executor"
    /\ IF num_workers <= 0
       THEN /\ Unwind(Raise("ValueError"))
            /\ UNCHANGED resources
       ELSE /\ resources' = resources \cup {"executor"}
            /\ pc' = "chunk"
            /\ UNCHANGED outcome
    /\ UNCHANGED <<data, num_workers, num_cpus, failItems, chunked, ix, task_id, progress,
                   shared_progress, totals, jobs, workers, remaining, n_seen_done, results>>

\* line 78: _chunked(data, count=num_cpus); num_cpus is a global that only __main__ binds
CallChunkedInProcess ==
    /\ pc = "chunk"
    /\ IF num_cpus = <<>>
       THEN /\ Unwind(Raise("NameError"))
            /\ UNCHANGED <<chunked, ix>>
       ELSE LET r == _chunked(data, num_cpus[1])
            IN  /\ chunked' = r
                /\ ix' = 0
                /\ IF r.exc # "None"
                   THEN Unwind(r)
                   ELSE /\ pc' = IF r.value = <<>> THEN "remaining" ELSE "add_task"
                        /\ UNCHANGED outcome
    /\ UNCHANGED <<data, num_workers, num_cpus, failItems, task_id, progress,
                   shared_progress, totals, jobs, workers, remaining, n_seen_done,
                   results, resources>>

\* line 79: task_id = progress.add_task(f'task {ix}')
AddTask ==
    /\ pc = "add_task"
    /\ LET new == Cardinality(DOMAIN progress)
       IN  /\ task_id' = new
           /\ progress' = progress @@ (new :> NewBar)
    /\ pc' = "set_progress"
    /\ UNCHANGED <<data, num_workers, num_cpus, failItems, chunked, ix, shared_progress,
                   totals, jobs, workers, remaining, n_seen_done, results, outcome,
                   resources>>

\* line 80: shared_progress[task_id] = 0
SetProgress ==
    /\ pc = "set_progress"
    /\ shared_progress' = (task_id :> 0) @@ shared_progress
    /\ pc' = "set_total"
    /\ UNCHANGED <<data, num_workers, num_cpus, failItems, chunked, ix, task_id, progress,
                   totals, jobs, workers, remaining, n_seen_done, results, outcome,
                   resources>>

\* line 81 keyed by the enumerate() index instead of the task id
SetTotalByIndex ==
    /\ pc = "set_total"
    /\ totals' = (ix :> Len(chunked.value[ix + 1])) @@ totals
    /\ pc' = "submit"
    /\ UNCHANGED <<data, num_workers, num_cpus, failItems, chunked, ix, task_id, progress,
                   shared_progress, jobs, workers, remaining, n_seen_done, results,
                   outcome, resources>>

\* line 81: totals[task_id] = len(chunk)
SetTotal ==
    /\ pc = "set_total"
    /\ totals' = (task_id :> Len(chunked.value[ix + 1])) @@ totals
    /\ pc' = "submit"
    /\ UNCHANGED <<data, num_workers, num_cpus, failItems, chunked, ix, task_id, progress,
                   shared_progress, jobs, workers, remaining, n_seen_done, results,
                   outcome, resources>>


\* lines 82-84 submitting the first chunk in every iteration
SubmitFirstChunk ==
    /\ pc = "submit"
    /\ jobs' = Append(jobs, [task_id |-> task_id, data |-> chunked.value[1],
                             state |-> "PENDING", outcome |-> NotCalled])
    /\ workers' = Append(workers, [pc |-> "loop", i |-> 1, latest |-> 0])
    /\ ix' = ix + 1
    /\ pc' = IF ix + 1 < Len(chunked.value) THEN "add_task" ELSE "remaining"
    /\ UNCHANGED <<data, num_workers, num_cpus, failItems, chunked, task_id, progress,
                   shared_progress, totals, remaining, n_seen_done, results, outcome,
                   resources>>

\* lines 82-84: jobs.append(executor.submit(delegated_task, task_id=..., data=chunk)),
\* then the next chunk of the enumerate() loop
Submit ==
    /\ pc = "submit"
    /\ jobs' = Append(jobs, [task_id |-> task_id, data |-> chunked.value[ix + 1],
                             state |-> "PENDING", outcome |-> NotCalled])
    /\ workers' = Append(workers, [pc |-> "loop", i |-> 1, latest |-> 0])
    /\ ix' = ix + 1
    /\ pc' = IF ix + 1 < Len(chunked.value) THEN "add_task" ELSE "remaining"
    /\ UNCHANGED <<data, num_workers, num_cpus, failItems, chunked, task_id, progress,
                   shared_progress, totals, remaining, n_seen_done, results, outcome,
                   resources>>

\* line 87: remaining = len(jobs)
InitRemaining ==
    /\ pc = "remaining"
    /\ remaining' = Len(jobs)
    /\ pc' = "while"
    /\ UNCHANGED <<data, num_workers, num_cpus, failItems, chunked, ix, task_id, progress,
                   shared_progress, totals, jobs, workers, n_seen_done, results, outcome,
                   resources>>

\* line 88: while remaining
While ==
    /\ pc = "while"
    /\ IF remaining # 0
       THEN /\ pc' = "poll"
            /\ UNCHANGED <<ix, results>>
       ELSE /\ pc' = "collect"
            /\ ix' = 1
            /\ results' = <<>>
    /\ UNCHANGED <<data, num_workers, num_cpus, failItems, chunked, task_id, progress,
                   shared_progress, totals, jobs, workers, remaining, n_seen_done, outcome,
                   resources>>


\* lines 89-93 consuming what they read: every entry is reset to 0 after the snapshot
PollDraining ==
    /\ pc = "poll"
    /\ LET snapshot == shared_progress
           n_done == SumValues(snapshot)
       IN  progress' = [t \in DOMAIN progress |->
                          IF t = task_id_all
                          THEN [completed |-> n_done, total |-> Len(data)]
                          ELSE IF t \in DOMAIN snapshot
                               THEN [completed |-> snapshot[t], total |-> totals[t]]
                               ELSE progress[t]]
    /\ shared_progress' = [t \in DOMAIN shared_progress |-> 0]
    /\ pc' = "done_scan"
    /\ ix' = 1
    /\ n_seen_done' = 0
    /\ UNCHANGED <<data, num_workers, num_cpus, failItems, chunked, task_id,
                   totals, jobs, workers, remaining, results, outcome, resources>>

\* lines 89-93 without the reset of line 89: n_done keeps the sum of the poll before
PollAccumulating ==
    /\ pc = "poll"
    /\ LET snapshot == shared_progress
           n_done == progress[task_id_all].completed + SumValues(snapshot)
       IN  progress' = [t \in DOMAIN progress |->
                          IF t = task_id_all
                          THEN [completed |-> n_done, total |-> Len(data)]
                          ELSE IF t \in DOMAIN snapshot
                               THEN [completed |-> snapshot[t], total |-> totals[t]]
                               ELSE progress[t]]
    /\ pc' = "done_scan"
    /\ ix' = 1
    /\ n_seen_done' = 0
    /\ UNCHANGED <<data, num_workers, num_cpus, failItems, chunked, task_id,
                   shared_progress, totals, jobs, workers, remaining, results, outcome,
                   resources>>

\* lines 89-93: one snapshot shared_progress.items(), every bar of the snapshot updated
\* with its value and total, the aggregate bar with the sum and len(data)
Poll ==
    /\ pc = "poll"
    /\ LET snapshot == shared_progress
           n_done == SumValues(snapshot)
       IN  progress' = [t \in DOMAIN progress |->
                          IF t = task_id_all
                          THEN [completed |-> n_done, total |-> Len(data)]
                          ELSE IF t \in DOMAIN snapshot
                               THEN [completed |-> snapshot[t], total |-> totals[t]]
                               ELSE progress[t]]
    /\ pc' = "done_scan"
    /\ ix' = 1
    /\ n_seen_done' = 0
    /\ UNCHANGED <<data, num_workers, num_cpus, failItems, chunked, task_id,
                   shared_progress, totals, jobs, workers, remaining, results, outcome,
                   resources>>

\* line 94: remaining = len(jobs) - sum(job.done() for job in jobs), one done() at a time
DoneScan ==
    /\ pc = "done_scan"
    /\ LET seen == n_seen_done + (IF JobDone(jobs[ix]) THEN 1 ELSE 0)
       IN  IF ix < Len(jobs)
           THEN /\ n_seen_done' = seen
                /\ ix' = ix + 1
                /\ UNCHANGED <<remaining, pc>>
           ELSE /\ remaining' = Len(jobs) - seen
                /\ n_seen_done' = seen
                /\ pc' = "while"
                /\ UNCHANGED ix
    /\ UNCHANGED <<data, num_workers, num_cpus, failItems, chunked, task_id, progress,
                   shared_progress, totals, jobs, workers, results, outcome, resources>>

\* line 97 collecting in reverse: each result is put in front of the earlier ones
CollectReversed ==
    /\ pc = "collect"
    /\ IF ix > Len(jobs)
       THEN /\ Unwind(Return(results))
            /\ UNCHANGED <<ix, results>>
       ELSE /\ JobDone(jobs[ix])
            /\ IF jobs[ix].outcome.exc # "None"
               THEN /\ Unwind(jobs[ix].outcome)
                    /\ UNCHANGED <<ix, results>>
               ELSE /\ results' = <<jobs[ix].outcome.value>> \o results
                    /\ ix' = ix + 1
                    /\ UNCHANGED <<pc, outcome>>
    /\ UNCHANGED <<data, num_workers, num_cpus, failItems, chunked, task_id, progress,
                   shared_progress, totals, jobs, workers, remaining, n_seen_done,
                   resources>>

\* line 97: [job.result() for job in jobs]: result() blocks until the job is done and
\* re-raises the job's exception, which abandons the list under construction
Collect ==
    /\ pc = "collect"
    /\ IF ix > Len(jobs)
       THEN /\ Unwind(Return(results))
            /\ UNCHANGED <<ix, results>>
       ELSE /\ JobDone(jobs[ix])
            /\ IF jobs[ix].outcome.exc # "None"
               THEN /\ Unwind(jobs[ix].outcome)
                    /\ UNCHANGED <<ix, results>>
               ELSE /\ results' = Append(results, jobs[ix].outcome.value)
                    /\ ix' = ix + 1
                    /\ UNCHANGED <<pc, outcome>>
    /\ UNCHANGED <<data, num_workers, num_cpus, failItems, chunked, task_id, progress,
                   shared_progress, totals, jobs, workers, remaining, n_seen_done,
                   resources>>

\* line 77, __exit__: executor.shutdown(wait=True) returns once every job has finished
ExitExecutor ==
    /\ pc = "exit_executor"
    /\ \A j \in 1..Len(jobs) : JobDone(jobs[j])
    /\ resources' = resources \ {"executor"}
    /\ pc' = "exit_manager"
    /\ UNCHANGED <<data, num_workers, num_cpus, failItems, chunked, ix, task_id, progress,
                   shared_progress, totals, jobs, workers, remaining, n_seen_done, results,
                   outcome>>

\* line 71, __exit__: the manager process is shut down
ExitManager ==
    /\ pc = "exit_manager"
    /\ resources' = resources \ {"manager"}
    /\ pc' = "exit_progress"
    /\ UNCHANGED <<data, num_workers, num_cpus, failItems, chunked, ix, task_id, progress,
                   shared_progress, totals, jobs, workers, remaining, n_seen_done, results,
                   outcome>>

\* line 69, __exit__: the display is stopped; the call returns or raises
ExitProgress ==
    /\ pc = "exit_progress"
    /\ resources' = resources \ {"progress"}
    /\ pc' = IF outcome.exc = "None" THEN "returned" ELSE "raised"
    /\ UNCHANGED <<data, num_workers, num_cpus, failItems, chunked, ix, task_id, progress,
                   shared_progress, totals, jobs, workers, remaining, n_seen_done, results,
                   outcome>>

\* ---- the pool and the delegated task --------------------------------------
NumRunning ==
    Cardinality({j \in 1..Len(jobs) : jobs[j].state = "RUNNING"})

\* the pool takes the oldest queued job when one of its max_workers processes is free
StartJob(j) ==
    /\ jobs[j].state = "PENDING"
    /\ \A m \in 1..(j - 1) : jobs[m].state # "PENDING"
    /\ NumRunning < num_workers
    /\ jobs' = [jobs EXCEPT ![j].state = "RUNNING"]
    /\ UNCHANGED <<data, num_workers, num_cpus, failItems, pc, chunked, ix, task_id,
                   progress, shared_progress, totals, workers, remaining, n_seen_done,
                   results, outcome, resources>>

\* a pool in which the exception of one task breaks the pool: every job still queued or
\* running is failed with it
WorkerLoopAbortAll(j) ==
    /\ jobs[j].state = "RUNNING"
    /\ workers[j].pc = "loop"
    /\ LET chunk == jobs[j].data
           i == workers[j].i
       IN  IF i > Len(chunk)
           THEN /\ jobs' = [jobs EXCEPT ![j].state = "FINISHED",
                                        ![j].outcome =
                                            Return(DelegatedResult(jobs[j].task_id, chunk))]
                /\ workers' = [workers EXCEPT ![j].pc = "exited"]
           ELSE IF chunk[i] \in failItems
                THEN /\ jobs' = [m \in 1..Len(jobs) |->
                                   IF jobs[m].state = "FINISHED" THEN jobs[m]
                                   ELSE [jobs[m] EXCEPT !.state = "FINISHED",
                                                        !.outcome = Raise("TaskError")]]
                     /\ workers' = [m \in 1..Len(jobs) |->
                                      IF jobs[m].state = "FINISHED" THEN workers[m]
                                      ELSE [workers[m] EXCEPT !.pc = "exited"]]
                ELSE /\ workers' = [workers EXCEPT ![j].pc = "read"]
                     /\ UNCHANGED jobs
    /\ UNCHANGED <<data, num_workers, num_cpus, failItems, pc, chunked, ix, task_id,
                   progress, shared_progress, totals, remaining, n_seen_done, results,
                   outcome, resources>>

\* lines 103-104 and 106: the next item is taken and processed, which may raise; after the
\* last item the task returns. Either way the future becomes done.
WorkerLoop(j) ==
    /\ jobs[j].state = "RUNNING"
    /\ workers[j].pc = "loop"
    /\ LET chunk == jobs[j].data
           i == workers[j].i
       IN  IF i > Len(chunk)
           THEN /\ jobs' = [jobs EXCEPT ![j].state = "FINISHED",
                                        ![j].outcome =
                                            Return(DelegatedResult(jobs[j].task_id, chunk))]
                /\ workers' = [workers EXCEPT ![j].pc = "exited"]
           ELSE IF chunk[i] \in failItems
                THEN /\ jobs' = [jobs EXCEPT ![j].state = "FINISHED",
                                             ![j].outcome = Raise("TaskError")]
                     /\ workers' = [workers EXCEPT ![j].pc = "exited"]
                ELSE /\ workers' = [workers EXCEPT ![j].pc = "read"]
                     /\ UNCHANGED jobs
    /\ UNCHANGED <<data, num_workers, num_cpus, failItems, pc, chunked, ix, task_id,
                   progress, shared_progress, totals, remaining, n_seen_done, results,
                   outcome, resources>>


\* line 105 reading the last polled (displayed) value instead of the channel's entry
WorkerReadDisplayed(j) ==
    /\ jobs[j].state = "RUNNING"
    /\ workers[j].pc = "read"
    /\ workers' = [workers EXCEPT ![j].latest = progress[jobs[j].task_id].completed,
                                  ![j].pc = "write"]
    /\ UNCHANGED <<data, num_workers, num_cpus, failItems, pc, chunked, ix, task_id,
                   progress, shared_progress, totals, jobs, remaining, n_seen_done,
                   results, outcome, resources>>

\* line 105, first half of +=: the proxy's __getitem__
WorkerRead(j) ==
    /\ jobs[j].state = "RUNNING"
    /\ workers[j].pc = "read"
    /\ workers' = [workers EXCEPT ![j].latest = shared_progress[jobs[j].task_id],
                                  ![j].pc = "write"]
    /\ UNCHANGED <<data, num_workers, num_cpus, failItems, pc, chunked, ix, task_id,
                   progress, shared_progress, totals, jobs, remaining, n_seen_done,
                   results, outcome, resources>>


\* line 105 writing under the first chunk's key instead of the worker's own task_id
WorkerWriteFirstKey(j) ==
    /\ jobs[j].state = "RUNNING"
    /\ workers[j].pc = "write"
    /\ shared_progress' = [shared_progress EXCEPT ![jobs[1].task_id] = workers[j].latest + 1]
    /\ workers' = [workers EXCEPT ![j].i = @ + 1, ![j].pc = "loop"]
    /\ UNCHANGED <<data, num_workers, num_cpus, failItems, pc, chunked, ix, task_id,
                   progress, totals, jobs, remaining, n_seen_done, results, outcome,
                   resources>>

\* line 105, second half of +=: the proxy's __setitem__
WorkerWrite(j) ==
    /\ jobs[j].state = "RUNNING"
    /\ workers[j].pc = "write"
    /\ shared_progress' = [shared_progress EXCEPT ![jobs[j].task_id] = workers[j].latest + 1]
    /\ workers' = [workers EXCEPT ![j].i = @ + 1, ![j].pc = "loop"]
    /\ UNCHANGED <<data, num_workers, num_cpus, failItems, pc, chunked, ix, task_id,
                   progress, totals, jobs, remaining, n_seen_done, results, outcome,
                   resources>>

Next ==
    \/ Enter
    \/ OpenExecutor
    \/ CallChunkedInProcess
    \/ AddTask
    \/ SetProgress
    \/ SetTotal
    \/ Submit
    \/ InitRemaining
    \/ While
    \/ Poll
    \/ DoneScan
    \/ Collect
    \/ ExitExecutor
    \/ ExitManager
    \/ ExitProgress
    \/ \E j \in 1..Len(jobs) : StartJob(j)
    \/ \E j \in 1..Len(jobs) : WorkerLoop(j)
    \/ \E j \in 1..Len(jobs) : WorkerRead(j)
    \/ \E j \in 1..Len(jobs) : WorkerWrite(j)

Spec ==
    Init /\ [][Next]_vars


\* the steps of the calling thread
MainStep ==
    \/ Enter
    \/ OpenExecutor
    \/ CallChunkedInProcess
    \/ AddTask
    \/ SetProgress
    \/ SetTotal
    \/ Submit
    \/ InitRemaining
    \/ While
    \/ Poll
    \/ DoneScan
    \/ Collect
    \/ ExitExecutor
    \/ ExitManager
    \/ ExitProgress

\* the steps of the pool process that runs job j
WorkerStep(j) ==
    /\ j \in 1..Len(jobs)
    /\ (StartJob(j) \/ WorkerLoop(j) \/ WorkerRead(j) \/ WorkerWrite(j))

\* the operating system schedules the calling thread and every pool process: none of
\* them is held back forever while it can take a step (the task itself terminates:
\* each item is processed in finite time or raises)
FairSpec ==
    /\ Spec
    /\ WF_vars(MainStep)
    /\ \A j \in 1..MaxLen : WF_vars(WorkerStep(j))

NextChunk ==
    CallChunked

SpecChunk ==
    InitChunk /\ [][NextChunk]_vars

\* ---- the claims -----------------------------------------------------------
Terminated ==
    pc \in {"returned", "raised"}

JobFailed(j) ==
    jobs[j].state = "FINISHED" /\ jobs[j].outcome.exc # "None"

JobSucceeded(j) ==
    jobs[j].state = "FINISHED" /\ jobs[j].outcome.exc = "None"

ChunkedReturned ==
    pc = "chunked_returned" /\ chunked.exc = "None"

\* C1: when the polling loop has stopped, the bar of every successfully finished chunk
\* shows completed = total, and when every job succeeded the aggregate bar shows
\* completed = len(data): no last increment is left unread.
C1_LoopExitShowsCompletion ==
    pc = "collect" =>
        /\ \A j \in 1..Len(jobs) :
              JobSucceeded(j) =>
                  progress[jobs[j].task_id].completed = totals[jobs[j].task_id]
        /\ (jobs # <<>> /\ \A j \in 1..Len(jobs) : JobSucceeded(j)) =>
              progress[task_id_all].completed = Len(data)

\* C2: when a job failed, the call still ends by returning a list with one slot per
\* chunk, the results of the successful chunks at their indices.
C2_FailureKeepsEverySlot ==
    (Terminated /\ \E j \in 1..Len(jobs) : JobFailed(j)) =>
        /\ pc = "returned"
        /\ Len(outcome.value) = Len(jobs)
        /\ \A j \in 1..Len(jobs) :
              JobSucceeded(j) => outcome.value[j] = jobs[j].outcome.value

\* C3: a job whose task raised after k items has its channel entry at k < len(chunk) in
\* every later state; the step in which a job fails changes no other job, worker or
\* channel entry; a job whose chunk holds no failing item never fails, can always take
\* its next step while it runs, and is finished with its entry at len(chunk) once the
\* polling loop has stopped.
C3_FailureIsIsolated ==
    /\ [](\A j \in 1..Len(jobs) :
            /\ JobFailed(j) =>
                  /\ FailPos(jobs[j].data) >= 1
                  /\ shared_progress[jobs[j].task_id] = FailPos(jobs[j].data) - 1
                  /\ shared_progress[jobs[j].task_id] < Len(jobs[j].data)
            /\ FailPos(jobs[j].data) = 0 =>
                  /\ ~JobFailed(j)
                  /\ jobs[j].state = "RUNNING" =>
                        ENABLED (WorkerLoop(j) \/ WorkerRead(j) \/ WorkerWrite(j))
                  /\ pc \in {"collect", "exit_executor", "exit_manager", "exit_progress",
                             "returned", "raised"} =>
                        /\ JobSucceeded(j)
                        /\ shared_progress[jobs[j].task_id] = Len(jobs[j].data))
    /\ [][\A j \in 1..Len(jobs) :
            (~JobFailed(j) /\ JobFailed(j)') =>
                /\ shared_progress' = shared_progress
                /\ \A m \in (1..Len(jobs)) \ {j} :
                      jobs'[m] = jobs[m] /\ workers'[m] = workers[m]]_vars

\* C3 witness: the call has ended, one job failed after at least one completed item and
\* another job ran to completion.
C3_Witness ==
    /\ Terminated
    /\ \E j, m \in 1..Len(jobs) :
          /\ JobFailed(j)
          /\ shared_progress[jobs[j].task_id] >= 1
          /\ JobSucceeded(m)
          /\ shared_progress[jobs[m].task_id] = Len(jobs[m].data)

\* C4: a returned list has one result per chunk, and result i is the value returned by
\* the job that was given chunk i.
C4_ResultsInChunkOrder ==
    pc = "returned" =>
        /\ Len(outcome.value) = Len(chunked.value)
        /\ Len(jobs) = Len(chunked.value)
        /\ \A i \in 1..Len(chunked.value) :
              /\ jobs[i].data = chunked.value[i]
              /\ outcome.value[i] = jobs[i].outcome.value
              /\ outcome.value[i] = DelegatedResult(jobs[i].task_id, chunked.value[i])

\* C4 witness: the call returned the results of at least two chunks.
C4_Witness ==
    /\ pc = "returned"
    /\ Len(outcome.value) >= 2
    /\ outcome.value[1] # outcome.value[2]

\* C5: for every list and every count W >= 1, _chunked returns chunks whose
\* concatenation is the list.
C5_ConcatReproducesInput ==
    (pc = "chunked_returned" /\ num_cpus[1] >= 1) =>
        /\ chunked.exc = "None"
        /\ Concat(chunked.value) = data

\* C6: for W >= 1 the chunks _chunked returns have sizes that differ pairwise by at most
\* 1 and sum to N.
C6_SizesDifferByAtMostOne ==
    (ChunkedReturned /\ num_cpus[1] >= 1) =>
        /\ SumLen(chunked.value) = Len(data)
        /\ \A i, j \in 1..Len(chunked.value) :
              Len(chunked.value[i]) - Len(chunked.value[j]) <= 1

\* C7: with an empty data list (and valid worker counts) the call submits no job and
\* returns the empty list without raising.
C7_EmptyDataReturnsEmpty ==
    (/\ Terminated
     /\ data = <<>>
     /\ num_workers >= 1
     /\ num_cpus # <<>>
     /\ num_cpus[1] >= 1) =>
        /\ pc = "returned"
        /\ outcome.value = <<>>
        /\ jobs = <<>>

\* C8: a count W <= 0 is rejected with an error and never answered with a result (the
\* claim also fixes the kind of the error, which is left open here).
C8_NonPositiveCountRejected ==
    (pc = "chunked_returned" /\ num_cpus[1] <= 0) =>
        chunked.exc # "None"

\* C9: for N >= 1 and W >= 1, _chunked returns at most W chunks and none is empty.
C9_AtMostWNonEmptyChunks ==
    (pc = "chunked_returned" /\ num_cpus[1] >= 1 /\ Len(data) >= 1) =>
        /\ chunked.exc = "None"
        /\ Len(chunked.value) <= num_cpus[1]
        /\ \A i \in 1..Len(chunked.value) : Len(chunked.value[i]) >= 1

\* C9 witness: a list that W does not divide is split into exactly W >= 2 chunks.
C9_Witness ==
    /\ ChunkedReturned
    /\ num_cpus[1] >= 2
    /\ PyMod(Len(data), num_cpus[1]) # 0
    /\ Len(chunked.value) = num_cpus[1]

\* C10 as stated: in every reachable state every key of the progress channel is a key
\* of totals and has a bar.
C10_KeysKnownInEveryState ==
    /\ DOMAIN shared_progress \subseteq DOMAIN totals
    /\ DOMAIN shared_progress \subseteq DOMAIN progress

\* C10 amended: every key of the progress channel has a bar, and is a key of totals in
\* every state except between lines 80 and 81, where the one key without a total is that
\* of the chunk being registered, whose job is not submitted yet; the keys of all
\* submitted jobs are in the channel and in totals, so no poll misses a total.
C10_KeysKnownOutsideRegistration ==
    /\ DOMAIN shared_progress \subseteq DOMAIN progress
    /\ pc # "set_total" => DOMAIN shared_progress \subseteq DOMAIN totals
    /\ pc = "set_total" =>
          /\ DOMAIN shared_progress \ DOMAIN totals = {task_id}
          /\ \A j \in 1..Len(jobs) : jobs[j].task_id # task_id
    /\ \A j \in 1..Len(jobs) :
          jobs[j].task_id \in DOMAIN shared_progress \cap DOMAIN totals

\* C10 witness: a poll is about to read a channel that holds the keys of two chunks.
C10_Witness ==
    /\ pc = "poll"
    /\ Cardinality(DOMAIN shared_progress) >= 2
    /\ DOMAIN shared_progress = DOMAIN totals

\* C11: a channel entry appears only by the dispatcher's line 80, with value 0; after
\* that no step removes or lowers it, and a step that changes it is the write of the one
\* job whose task_id is its key.
C11_SingleWriterMonotone ==
    [][/\ \A t \in DOMAIN shared_progress' \ DOMAIN shared_progress :
             SetProgress /\ t = task_id /\ shared_progress'[t] = 0
       /\ \A t \in DOMAIN shared_progress :
             /\ t \in DOMAIN shared_progress'
             /\ shared_progress'[t] >= shared_progress[t]
             /\ shared_progress'[t] # shared_progress[t] =>
                   \E j \in 1..Len(jobs) :
                       /\ jobs[j].task_id = t
                       /\ WorkerWrite(j)
                       /\ \A m \in 1..Len(jobs) : jobs[m].task_id = t => m = j]_vars

\* C11 witness: with two jobs submitted, one entry has been written twice and a poll has
\* read a written entry.
C11_Witness ==
    /\ Len(jobs) >= 2
    /\ \E j \in 1..Len(jobs) : shared_progress[jobs[j].task_id] >= 2
    /\ progress[task_id_all].completed >= 1

\* C12: when the call has returned or raised, the pool, the manager and the display are
\* all released; the pool is never released while a submitted job is unfinished, and
\* the manager and the display outlive the pool.
C12_ResourcesReleasedOnEveryExit ==
    /\ Terminated => resources = {}
    /\ (pc # "start" /\ "executor" \notin resources) =>
          \A j \in 1..Len(jobs) : jobs[j].state = "FINISHED"
    /\ "executor" \in resources => {"manager", "progress"} \subseteq resources
    /\ "manager" \in resources => "progress" \in resources

\* C12 witness: the call raised the failure of a job, other jobs had been submitted, and
\* nothing is left open.
C12_Witness ==
    /\ pc = "raised"
    /\ outcome.exc = "TaskError"
    /\ Len(jobs) >= 2
    /\ resources = {}

\* C13: a job's entry always equals the number of items its worker has completed, the
\* items being taken in chunk order; each write raises the entry by exactly 1; a job that
\* finished without failure has its entry at len(chunk), and when every job of a call
\* that has jobs succeeded the entries sum to len(data).
C13_IncrementsAreNotLost ==
    /\ [](/\ \A j \in 1..Len(jobs) :
               /\ shared_progress[jobs[j].task_id] = workers[j].i - 1
               /\ workers[j].pc = "write" =>
                     workers[j].latest = shared_progress[jobs[j].task_id]
               /\ JobSucceeded(j) => shared_progress[jobs[j].task_id] = Len(jobs[j].data)
          /\ (/\ jobs # <<>>
              /\ Len(jobs) = Len(chunked.value)
              /\ \A j \in 1..Len(jobs) : JobSucceeded(j)) =>
                 SumValues(shared_progress) = Len(data))
    /\ [][\A j \in 1..Len(jobs) :
            WorkerWrite(j) =>
                /\ shared_progress'[jobs[j].task_id] = shared_progress[jobs[j].task_id] + 1
                /\ workers'[j].i = workers[j].i + 1]_vars

\* C13 witness: the call returned, every one of its jobs succeeded, one of them on a
\* chunk of two or more items, and the entries sum to len(data).
C13_Witness ==
    /\ Len(jobs) >= 2
    /\ \A j \in 1..Len(jobs) : JobSucceeded(j)
    /\ \E j \in 1..Len(jobs) : Len(jobs[j].data) >= 2
    /\ SumValues(shared_progress) = Len(data)
    /\ pc = "returned"

\* C14: the data is split for the worker count that sizes the pool, so the number of
\* jobs submitted never exceeds the pool size num_workers.
C14_JobsWithinPoolSize ==
    jobs # <<>> => Len(jobs) <= num_workers

\* C15: job i was given chunk i; the task ids of the jobs differ from each other and
\* from the aggregate bar's; while a chunk is still unsubmitted no poll has touched a
\* bar, and from line 87 on there is exactly one job per chunk.
C15_OneJobPerChunkBeforePolling ==
    /\ Len(jobs) <= Len(chunked.value)
    /\ \A i \in 1..Len(jobs) :
          /\ jobs[i].data = chunked.value[i]
          /\ jobs[i].task_id # task_id_all
          /\ \A m \in 1..Len(jobs) : jobs[m].task_id = jobs[i].task_id => m = i
    /\ Len(jobs) < Len(chunked.value) =>
          /\ pc \in {"add_task", "set_progress", "set_total", "submit"}
          /\ \A t \in DOMAIN progress : progress[t] = NewBar
    /\ pc \in {"remaining", "while", "poll", "done_scan", "collect"} =>
          Len(jobs) = Len(chunked.value)

\* C15 witness: the first poll is about to run, two or more jobs are submitted and one
\* of them has already finished.
C15_Witness ==
    /\ pc = "poll"
    /\ progress[task_id_all] = NewBar
    /\ Len(jobs) >= 2
    /\ \E j \in 1..Len(jobs) : jobs[j].state = "FINISHED"

\* C16: the polling loop is left, and result collection and everything after it
\* reached, only with every job finished (completed or failed); the loop variable
\* remaining is 0 at the loop test only then.
C16_LoopExitsOnlyWhenAllDone ==
    /\ pc \in {"collect", "exit_executor", "exit_manager", "exit_progress", "returned",
               "raised"} =>
          \A j \in 1..Len(jobs) : jobs[j].state = "FINISHED"
    /\ (pc = "while" /\ remaining = 0) =>
          \A j \in 1..Len(jobs) : jobs[j].state = "FINISHED"
    /\ pc = "while" => remaining \in 0..Len(jobs)

\* C16 witness: collection begins after a loop that saw one job fail and another succeed.
C16_Witness ==
    /\ pc = "collect"
    /\ \E j, m \in 1..Len(jobs) : JobFailed(j) /\ JobSucceeded(m)

\* C17: under fair scheduling the call eventually returns its results or raises; jobs
\* that failed do not keep the loop polling.
C17_CallEventuallyEnds ==
    <>Terminated

\* C17 witness: the call has ended although every one of its two or more jobs failed.
C17_Witness ==
    /\ Terminated
    /\ Len(jobs) >= 2
    /\ \A j \in 1..Len(jobs) : JobFailed(j)

\* C18: the steps of a poll (the snapshot and bar updates of lines 89-93, the done()
\* scan of line 94, the loop test) leave the channel, the jobs and the workers as they
\* are, and a running job can take its next step whatever the calling thread is doing.
C18_PollOnlyReads ==
    /\ [][(Poll \/ DoneScan \/ While) =>
            /\ shared_progress' = shared_progress
            /\ jobs' = jobs
            /\ workers' = workers
            /\ totals' = totals]_vars
    /\ [](\A j \in 1..Len(jobs) :
            jobs[j].state = "RUNNING" =>
                ENABLED (WorkerLoop(j) \/ WorkerRead(j) \/ WorkerWrite(j)))

\* C18 witness: a poll has shown a written entry while a worker is between the read and
\* the write of its next increment.
C18_Witness ==
    /\ pc = "done_scan"
    /\ progress[task_id_all].completed >= 1
    /\ \E j \in 1..Len(jobs) :
          /\ jobs[j].state = "RUNNING"
          /\ workers[j].pc = "write"
          /\ workers[j].latest >= 1

\* the completed values of the per-chunk bars
ChunkBarsCompleted ==
    [t \in DOMAIN progress \ {task_id_all} |-> progress[t].completed]

\* C19: the aggregate bar's completed value is the sum of the per-chunk values on
\* display; a per-chunk value is at most its bar's total and the chunk's length, the
\* aggregate at most len(data); once a poll has run every bar's total is the chunk's
\* length and the aggregate's is len(data); no step lowers a displayed value.
C19_DisplayIsOneSnapshot ==
    /\ [](progress # <<>> =>
            /\ progress[task_id_all].completed = SumValues(ChunkBarsCompleted)
            /\ progress[task_id_all].completed <= Len(data)
            /\ \A t \in DOMAIN progress \ {task_id_all} :
                  /\ progress[t].completed <= progress[t].total
                  /\ t \in DOMAIN totals => progress[t].completed <= totals[t]
            /\ pc = "done_scan" =>
                  /\ progress[task_id_all].total = Len(data)
                  /\ \A t \in DOMAIN progress \ {task_id_all} :
                        progress[t].total = totals[t])
    /\ [][\A t \in DOMAIN progress :
            /\ t \in DOMAIN progress'
            /\ progress'[t].completed >= progress[t].completed]_vars

\* C19 witness: a poll has just shown two chunk bars, one of them advanced, with the
\* aggregate above 0 and below len(data).
C19_Witness ==
    /\ pc = "done_scan"
    /\ Cardinality(DOMAIN progress) >= 3
    /\ progress[task_id_all].completed >= 1
    /\ progress[task_id_all].completed < Len(data)
    /\ \E t \in DOMAIN progress \ {task_id_all} : progress[t].completed = 0

\* the sizes of the chunks _chunked returned
ChunkSizes ==
    [i \in 1..Len(chunked.value) |-> Len(chunked.value[i])]

\* C20: for N >= 1 and W >= 1 every chunk but the last has exactly ceil(N / W) items
\* and the last has between 1 and ceil(N / W); N = 23, W = 4 gives 6, 6, 6, 5, and
\* W > N gives N chunks of one item.
C20_ChunksOfCeilSize ==
    (pc = "chunked_returned" /\ num_cpus[1] >= 1 /\ Len(data) >= 1) =>
        LET N == Len(data)
            W == num_cpus[1]
            ceil == (N + W - 1) \div W
            n == Len(chunked.value)
        IN  /\ chunked.exc = "None"
            /\ n >= 1
            /\ \A i \in 1..(n - 1) : ChunkSizes[i] = ceil
            /\ ChunkSizes[n] \in 1..ceil
            /\ (N = 23 /\ W = 4) => ChunkSizes = <<6, 6, 6, 5>>
            /\ W > N => (n = N /\ \A i \in 1..n : ChunkSizes[i] = 1)

\* C20 witness: the demo's 23 items have been split for 4 workers.
C20_Witness ==
    /\ pc = "chunked_returned"
    /\ data = DemoData
    /\ num_cpus = <<DemoCpus>>
    /\ ChunkSizes = <<6, 6, 6, 5>>

====
